---------------------------- MODULE Spec2Model ----------------------------
(***************************************************************************)
(* The authoritative card-game session of src/card_game_server.py: the     *)
(* Game object (deck, hands, discard pile, pending discard, turn order,    *)
(* current turn, show results), the client registry and the per-connection *)
(* handler threads.                                                        *)
(*                                                                         *)
(* Game methods are operators from a game record to a game record, named   *)
(* as in the source.  Under Spec a connection thread takes three kinds of  *)
(* step: the join (add_player and the registration), the start attempt     *)
(* that follows it (the lock is released in between, so other connections  *)
(* may join first), and one whole pass of the receive loop (handle_action, *)
(* next_turn, broadcast_state) or the disconnect path (remove_client).     *)
(***************************************************************************)
EXTENDS Integers, Sequences, FiniteSets, TLC

(* ------------------------------ bounds --------------------------------- *)
\* Connection identities (addresses) are 1..MaxIds.
MaxIds == 3
\* Deck() may come out in any of NumShuffles orders (see Decks).
NumShuffles == 2
\* Handler steps (joins, start attempts, messages, disconnects) in one run.
MaxSteps == 3

Ids == 1..MaxIds

(* --------------------------- Card and Deck ----------------------------- *)
\* Python's None (an absent player id, an absent card value).
None == 0

SUITS == <<"Hearts", "Diamonds", "Clubs", "Spades">>
RANKS == <<"2", "3", "4", "5", "6", "7", "8", "9", "10",
           "Jack", "Queen", "King", "Ace">>

\* A Card object is named by its place in the suit-major list of Deck.__init__
\* (1 is the 2 of Hearts, 52 the Ace of Spades); card_suit and card_rank are
\* its two fields.
card_suit(card) == SUITS[((card - 1) \div Len(RANKS)) + 1]
card_rank(card) == RANKS[((card - 1) % Len(RANKS)) + 1]

\* Card.__str__: "<rank> of <suit>", kept as its space-separated words.
CardStr(card) == <<card_rank(card), "of", card_suit(card)>>

\* Deck.__init__ before the shuffle: suits outermost, ranks innermost.
NewDeckCards == [i \in 1..(Len(SUITS) * Len(RANKS)) |-> i]

\* One riffle of a pile: the two halves interleaved.
Riffle(d) ==
    [i \in 1..Len(d) |->
        IF i % 2 = 1 THEN d[(i + 1) \div 2]
                     ELSE d[(Len(d) \div 2) + (i \div 2)]]

RECURSIVE Shuffled(_)
\* Deck.shuffle: random.shuffle may return any permutation; the model draws
\* from the orders that k riffles of the fresh deck produce.
Shuffled(k) == IF k = 0 THEN NewDeckCards ELSE Riffle(Shuffled(k - 1))

\* The decks Deck() can return: the fresh deck riffled 2, 3, ... times (from
\* two riffles on, the hands dealt hold several cards of one rank).
Decks == { Shuffled(k + 1) : k \in 1..NumShuffles }

\* Deck.deal_card on a non-empty pile: its last card.  On an empty pile the
\* code returns None and leaves the pile alone; callers here test Len first.
deal_card(cards) == cards[Len(cards)]
\* The pile that deal_card leaves behind.
after_deal(cards) ==
    IF Len(cards) = 0 THEN cards ELSE SubSeq(cards, 1, Len(cards) - 1)

(* ------------------------------ helpers -------------------------------- *)
Range(s) == { s[i] : i \in 1..Len(s) }

\* list.index: the first position of x in s.
IndexOf(s, x) == CHOOSE i \in 1..Len(s) : s[i] = x /\ \A j \in 1..(i - 1) : s[j] # x

\* list.remove: s without the first occurrence of x.
RemoveFirst(s, x) ==
    LET i == IndexOf(s, x)
    IN  SubSeq(s, 1, i - 1) \o SubSeq(s, i + 1, Len(s))

\* A dict with key k set to v.
DictPut(d, k, v) == [x \in (DOMAIN d) \cup {k} |-> IF x = k THEN v ELSE d[x]]
\* A dict without key k.
DictDel(d, k) == [x \in (DOMAIN d) \ {k} |-> d[x]]

(* ------------------------------- Game ---------------------------------- *)
\* cards_per_player, the default of start_game.
cards_per_player == 7
\* Game.min_players.
min_players == 2

\* Player.__init__: the name's number and an empty hand.
Player(n) == [name |-> n, hand |-> <<>>]

\* Game.__init__.
NewGame(d) ==
    [ players                |-> <<>>,
      deck                   |-> d,
      current_turn_player_id |-> None,
      discard_pile           |-> <<>>,
      player_order           |-> <<>>,
      game_started           |-> FALSE,
      has_discarded          |-> FALSE,
      pending_discard        |-> <<>>,
      show_results           |-> <<>> ]

\* Game.add_player: the game after the call (unchanged when it returns None).
add_player_ok(g, player_id) ==
    ~g.game_started /\ player_id \notin DOMAIN g.players

\* add_player without the test of game_started.
add_player_any_time(g, player_id) ==
    IF player_id \notin DOMAIN g.players
    THEN [g EXCEPT !.players = DictPut(g.players, player_id,
                                       Player(Cardinality(DOMAIN g.players) + 1)),
                   !.player_order = Append(g.player_order, player_id)]
    ELSE g

add_player(g, player_id) ==
    IF add_player_ok(g, player_id)
    THEN [g EXCEPT !.players = DictPut(g.players, player_id,
                                       Player(Cardinality(DOMAIN g.players) + 1)),
                   !.player_order = Append(g.player_order, player_id)]
    ELSE g

\* next_turn stepping backwards through player_order.
next_turn_back(g) ==
    IF ~g.game_started \/ g.player_order = <<>> \/ g.current_turn_player_id = None
    THEN g
    ELSE IF g.current_turn_player_id \in Range(g.player_order)
         THEN LET current_index == IndexOf(g.player_order, g.current_turn_player_id)
                  next_index == ((current_index + Len(g.player_order) - 2)
                                     % Len(g.player_order)) + 1
              IN  [g EXCEPT !.current_turn_player_id = g.player_order[next_index],
                            !.has_discarded = FALSE,
                            !.pending_discard = <<>>]
         ELSE [g EXCEPT !.current_turn_player_id = g.player_order[1],
                        !.has_discarded = FALSE,
                        !.pending_discard = <<>>]

\* next_turn that resets has_discarded and leaves the pending discard.
next_turn_keeps_pending(g) ==
    IF ~g.game_started \/ g.player_order = <<>> \/ g.current_turn_player_id = None
    THEN g
    ELSE IF g.current_turn_player_id \in Range(g.player_order)
         THEN LET current_index == IndexOf(g.player_order, g.current_turn_player_id)
                  next_index == (current_index % Len(g.player_order)) + 1
              IN  [g EXCEPT !.current_turn_player_id = g.player_order[next_index],
                            !.has_discarded = FALSE]
         ELSE [g EXCEPT !.current_turn_player_id = g.player_order[1],
                        !.has_discarded = FALSE]

\* next_turn that stays on the last player of player_order instead of going
\* back to the first.
next_turn_no_wrap(g) ==
    IF ~g.game_started \/ g.player_order = <<>> \/ g.current_turn_player_id = None
    THEN g
    ELSE IF g.current_turn_player_id \in Range(g.player_order)
         THEN LET current_index == IndexOf(g.player_order, g.current_turn_player_id)
                  next_index == IF current_index = Len(g.player_order)
                                THEN current_index
                                ELSE current_index + 1
              IN  [g EXCEPT !.current_turn_player_id = g.player_order[next_index],
                            !.has_discarded = FALSE,
                            !.pending_discard = <<>>]
         ELSE [g EXCEPT !.current_turn_player_id = g.player_order[1],
                        !.has_discarded = FALSE,
                        !.pending_discard = <<>>]

\* Game.next_turn.
next_turn(g) ==
    IF ~g.game_started \/ g.player_order = <<>> \/ g.current_turn_player_id = None
    THEN g
    ELSE IF g.current_turn_player_id \in Range(g.player_order)
         THEN LET current_index == IndexOf(g.player_order, g.current_turn_player_id)
                  next_index == (current_index % Len(g.player_order)) + 1
              IN  [g EXCEPT !.current_turn_player_id = g.player_order[next_index],
                            !.has_discarded = FALSE,
                            !.pending_discard = <<>>]
         \* except ValueError: the current id is not in player_order
         \* (player_order is non-empty here, so the else branch is dead).
         ELSE [g EXCEPT !.current_turn_player_id = g.player_order[1],
                        !.has_discarded = FALSE,
                        !.pending_discard = <<>>]

\* remove_player without the call of next_turn for a leaving turn holder.
remove_player_no_advance(g, player_id) ==
    IF player_id \notin DOMAIN g.players
    THEN g
    ELSE LET g2 == [g EXCEPT !.player_order =
                                 IF player_id \in Range(g.player_order)
                                 THEN RemoveFirst(g.player_order, player_id)
                                 ELSE g.player_order,
                             !.players = DictDel(g.players, player_id)]
         IN  IF g2.game_started /\ Cardinality(DOMAIN g2.players) < min_players
             THEN [g2 EXCEPT !.game_started = FALSE]
             ELSE g2

\* remove_player that leaves game_started set when too few players remain.
remove_player_keeps_started(g, player_id) ==
    IF player_id \notin DOMAIN g.players
    THEN g
    ELSE LET g1 == IF g.current_turn_player_id = player_id THEN next_turn(g) ELSE g
         IN  [g1 EXCEPT !.player_order =
                            IF player_id \in Range(g1.player_order)
                            THEN RemoveFirst(g1.player_order, player_id)
                            ELSE g1.player_order,
                        !.players = DictDel(g1.players, player_id)]

\* remove_player that stops the game only when no player is left.
remove_player_stops_at_none(g, player_id) ==
    IF player_id \notin DOMAIN g.players
    THEN g
    ELSE LET g1 == IF g.current_turn_player_id = player_id THEN next_turn(g) ELSE g
             g2 == [g1 EXCEPT !.player_order =
                                  IF player_id \in Range(g1.player_order)
                                  THEN RemoveFirst(g1.player_order, player_id)
                                  ELSE g1.player_order,
                              !.players = DictDel(g1.players, player_id)]
         IN  IF g2.game_started /\ Cardinality(DOMAIN g2.players) < 1
             THEN [g2 EXCEPT !.game_started = FALSE]
             ELSE g2

\* remove_player that calls next_turn whoever leaves.
remove_player_always_advances(g, player_id) ==
    IF player_id \notin DOMAIN g.players
    THEN g
    ELSE LET g1 == next_turn(g)
             g2 == [g1 EXCEPT !.player_order =
                                  IF player_id \in Range(g1.player_order)
                                  THEN RemoveFirst(g1.player_order, player_id)
                                  ELSE g1.player_order,
                              !.players = DictDel(g1.players, player_id)]
         IN  IF g2.game_started /\ Cardinality(DOMAIN g2.players) < min_players
             THEN [g2 EXCEPT !.game_started = FALSE]
             ELSE g2

\* Game.remove_player.
remove_player(g, player_id) ==
    IF player_id \notin DOMAIN g.players
    THEN g
    ELSE LET g1 == IF g.current_turn_player_id = player_id THEN next_turn(g) ELSE g
             g2 == [g1 EXCEPT !.player_order =
                                  IF player_id \in Range(g1.player_order)
                                  THEN RemoveFirst(g1.player_order, player_id)
                                  ELSE g1.player_order,
                              !.players = DictDel(g1.players, player_id)]
         IN  IF g2.game_started /\ Cardinality(DOMAIN g2.players) < min_players
             THEN [g2 EXCEPT !.game_started = FALSE]
             ELSE g2

RECURSIVE deal_loop(_, _, _)
\* The dealing loops of start_game, flattened: deal number j (from 0) of
\* n * len(player_order) goes to player_order[j mod len], when a card is left.
deal_loop(g, j, n) ==
    IF j >= n * Len(g.player_order)
    THEN g
    ELSE LET player_id == g.player_order[(j % Len(g.player_order)) + 1]
         IN  deal_loop(
                 IF Len(g.deck) > 0
                 THEN [g EXCEPT !.deck = after_deal(g.deck),
                                !.players[player_id].hand =
                                    Append(g.players[player_id].hand, deal_card(g.deck))]
                 ELSE g,
                 j + 1, n)

\* The guard of Game.start_game (its return value).
start_game_ok(g) ==
    ~g.game_started /\ Cardinality(DOMAIN g.players) >= min_players

\* start_game that places no opening card on the discard pile.
start_game_no_opening(g, d, n) ==
    IF start_game_ok(g)
    THEN LET g1 == [g EXCEPT !.deck = d,
                             !.discard_pile = <<>>,
                             !.has_discarded = FALSE,
                             !.pending_discard = <<>>]
             g2 == deal_loop(g1, 0, n)
         IN  [g2 EXCEPT !.current_turn_player_id = g2.player_order[1],
                        !.game_started = TRUE]
    ELSE g

\* Game.start_game, with d the deck that Deck() returns.
start_game(g, d, n) ==
    IF start_game_ok(g)
    THEN LET g1 == [g EXCEPT !.deck = d,
                             !.discard_pile = <<>>,
                             !.has_discarded = FALSE,
                             !.pending_discard = <<>>]
             g2 == deal_loop(g1, 0, n)
             g3 == IF Len(g2.deck) > 0
                   THEN [g2 EXCEPT !.deck = after_deal(g2.deck),
                                   !.discard_pile = Append(g2.discard_pile,
                                                           deal_card(g2.deck))]
                   ELSE g2
             g4 == IF g3.player_order # <<>>
                   THEN [g3 EXCEPT !.current_turn_player_id = g3.player_order[1]]
                   ELSE g3
         IN  [g4 EXCEPT !.game_started = TRUE]
    ELSE g

(* --------------------------- card values ------------------------------- *)
\* str.isdigit and int() on the ranks that are written in digits.
IsDigit(rank) == rank \in {"2", "3", "4", "5", "6", "7", "8", "9", "10"}
IntOf(rank) ==
    CASE rank = "2" -> 2 [] rank = "3" -> 3 [] rank = "4" -> 4
      [] rank = "5" -> 5 [] rank = "6" -> 6 [] rank = "7" -> 7
      [] rank = "8" -> 8 [] rank = "9" -> 9 [] rank = "10" -> 10

\* str.lower on the words a rank can be.
Lower(rank) ==
    CASE rank = "Jack" -> "jack" [] rank = "Queen" -> "queen"
      [] rank = "King" -> "king" [] rank = "Ace" -> "ace"
      [] OTHER -> rank

\* Game.get_card_value from the rank on (lines 214-225).
rank_value(rank) ==
    IF IsDigit(rank) THEN IntOf(rank)
    ELSE LET r == Lower(rank)
         IN  CASE r = "jack"  -> 11
               [] r = "queen" -> 12
               [] r = "king"  -> 13
               [] r = "ace"   -> 1
               [] OTHER       -> None

\* Game.get_card_value on a Card object.
get_card_value(card) == rank_value(card_rank(card))

\* Game.get_card_value on a str: the rank is the first space-separated word
\* (str.split always returns at least one word; the empty one has no value).
get_card_value_str(card_str) ==
    IF Len(card_str) = 0 THEN None ELSE rank_value(card_str[1])

RECURSIVE hand_sum(_)
\* sum(self.get_card_value(card) for card in p.hand)
hand_sum(hand) ==
    IF hand = <<>> THEN 0 ELSE get_card_value(Head(hand)) + hand_sum(Tail(hand))

(* -------------------------- State projection --------------------------- *)
\* [str(card) for card in cards]
StrList(cards) == [i \in 1..Len(cards) |-> CardStr(cards[i])]

\* get_game_state that sends, with every player's hand size, the hand.
get_game_state_leaky(g, player_id) ==
    [ my_hand                |-> StrList(g.players[player_id].hand),
      my_id                  |-> player_id,
      players                |-> [pid \in DOMAIN g.players |->
                                     [name |-> g.players[pid].name,
                                      hand_size |-> Len(g.players[pid].hand),
                                      hand |-> StrList(g.players[pid].hand)]],
      deck_size              |-> Len(g.deck),
      current_turn_player_id |-> g.current_turn_player_id,
      game_started           |-> g.game_started ]

\* Game.get_game_state for a player who is in the game (for any other id the
\* code returns None).  Absent strings and lists are the empty sequence, an
\* absent show result is "None".
get_game_state(g, player_id) ==
    [ my_hand                |-> StrList(g.players[player_id].hand),
      my_id                  |-> player_id,
      players                |-> [pid \in DOMAIN g.players |->
                                     [name |-> g.players[pid].name,
                                      hand_size |-> Len(g.players[pid].hand)]],
      deck_size              |-> Len(g.deck),
      discard_pile_top       |-> IF g.discard_pile # <<>>
                                 THEN CardStr(g.discard_pile[Len(g.discard_pile)])
                                 ELSE <<>>,
      current_turn_player_id |-> g.current_turn_player_id,
      game_started           |-> g.game_started,
      player_order           |-> g.player_order,
      pending_discard        |-> IF g.pending_discard # <<>>
                                 THEN StrList(g.pending_discard[1])
                                 ELSE <<>>,
      pending_discard_player |-> IF g.pending_discard # <<>>
                                 THEN g.pending_discard[2]
                                 ELSE None,
      show_result            |-> IF player_id \in DOMAIN g.show_results
                                 THEN g.show_results[player_id]
                                 ELSE "None" ]

(* ---------------------------- handle_action ---------------------------- *)
\* What handle_action returns, with the game it leaves.
Result(g, action_processed, advance_turn) ==
    [g |-> g, action_processed |-> action_processed, advance_turn |-> advance_turn]

\* discard_card without the gate of line 245.
discard_card_no_gate(g, player_id, card_str) ==
    IF card_str # <<>>
    THEN LET value == get_card_value_str(card_str)
             hand == g.players[player_id].hand
             Same(card) == get_card_value(card) = value
             Other(card) == get_card_value(card) # value
             cards_to_remove == SelectSeq(hand, Same)
         IN  IF cards_to_remove # <<>>
             THEN Result([g EXCEPT !.players[player_id].hand = SelectSeq(hand, Other),
                                   !.pending_discard = <<cards_to_remove, player_id>>,
                                   !.has_discarded = TRUE],
                         TRUE, FALSE)
             ELSE Result(g, FALSE, FALSE)
    ELSE Result(g, FALSE, FALSE)

\* discard_card that takes only the first card of the named value.
discard_card_single(g, player_id, card_str) ==
    IF g.pending_discard = <<>> /\ ~g.has_discarded /\ card_str # <<>>
    THEN LET value == get_card_value_str(card_str)
             hand == g.players[player_id].hand
             Same(card) == get_card_value(card) = value
             cards_to_remove == SelectSeq(hand, Same)
         IN  IF cards_to_remove # <<>>
             THEN Result([g EXCEPT !.players[player_id].hand =
                                       RemoveFirst(hand, cards_to_remove[1]),
                                   !.pending_discard = <<<<cards_to_remove[1]>>, player_id>>,
                                   !.has_discarded = TRUE],
                         TRUE, FALSE)
             ELSE Result(g, FALSE, FALSE)
    ELSE Result(g, FALSE, FALSE)

\* discard_card that asks for the turn to advance.
discard_card_advances(g, player_id, card_str) ==
    IF g.pending_discard = <<>> /\ ~g.has_discarded
    THEN IF card_str # <<>>
         THEN LET value == get_card_value_str(card_str)
                  hand == g.players[player_id].hand
                  Same(card) == get_card_value(card) = value
                  Other(card) == get_card_value(card) # value
                  cards_to_remove == SelectSeq(hand, Same)
              IN  IF cards_to_remove # <<>>
                  THEN Result([g EXCEPT !.players[player_id].hand = SelectSeq(hand, Other),
                                        !.pending_discard = <<cards_to_remove, player_id>>,
                                        !.has_discarded = TRUE],
                              TRUE, TRUE)
                  ELSE Result(g, FALSE, FALSE)
         ELSE Result(g, FALSE, FALSE)
    ELSE Result(g, FALSE, FALSE)

\* action == "discard_card" (lines 243-267).
discard_card(g, player_id, card_str) ==
    IF g.pending_discard = <<>> /\ ~g.has_discarded
    THEN IF card_str # <<>>
         THEN LET value == get_card_value_str(card_str)
                  hand == g.players[player_id].hand
                  Same(card) == get_card_value(card) = value
                  Other(card) == get_card_value(card) # value
                  cards_to_remove == SelectSeq(hand, Same)
              IN  IF cards_to_remove # <<>>
                  THEN Result([g EXCEPT !.players[player_id].hand = SelectSeq(hand, Other),
                                        !.pending_discard = <<cards_to_remove, player_id>>,
                                        !.has_discarded = TRUE],
                              TRUE, FALSE)
                  ELSE Result(g, FALSE, FALSE)
         ELSE Result(g, FALSE, FALSE)
    ELSE Result(g, FALSE, FALSE)

\* draw_card that forgets to move the pending cards onto the discard pile.
draw_card_drop_pending(g, player_id) ==
    IF g.pending_discard # <<>> /\ g.has_discarded /\ Len(g.deck) > 0
    THEN Result([g EXCEPT !.deck = after_deal(g.deck),
                          !.players[player_id].hand =
                              Append(g.players[player_id].hand, deal_card(g.deck)),
                          !.pending_discard = <<>>,
                          !.has_discarded = FALSE],
                TRUE, TRUE)
    ELSE Result(g, FALSE, FALSE)

\* draw_card that resolves the pending discard also when the deck is empty.
draw_card_empty_resolves(g, player_id) ==
    IF g.pending_discard # <<>> /\ g.has_discarded
    THEN IF Len(g.deck) > 0
         THEN Result([g EXCEPT !.deck = after_deal(g.deck),
                               !.players[player_id].hand =
                                   Append(g.players[player_id].hand, deal_card(g.deck)),
                               !.discard_pile = g.discard_pile \o g.pending_discard[1],
                               !.pending_discard = <<>>,
                               !.has_discarded = FALSE],
                     TRUE, TRUE)
         ELSE Result([g EXCEPT !.discard_pile = g.discard_pile \o g.pending_discard[1],
                               !.pending_discard = <<>>,
                               !.has_discarded = FALSE],
                     TRUE, TRUE)
    ELSE Result(g, FALSE, FALSE)

\* action == "draw_card" (lines 269-286).
draw_card(g, player_id) ==
    IF g.pending_discard # <<>> /\ g.has_discarded
    THEN IF Len(g.deck) > 0
         THEN Result([g EXCEPT !.deck = after_deal(g.deck),
                               !.players[player_id].hand =
                                   Append(g.players[player_id].hand, deal_card(g.deck)),
                               !.discard_pile = g.discard_pile \o g.pending_discard[1],
                               !.pending_discard = <<>>,
                               !.has_discarded = FALSE],
                     TRUE, TRUE)
         ELSE Result(g, FALSE, FALSE)
    ELSE Result(g, FALSE, FALSE)

\* draw_from_discard_pile that pushes the pending cards before it pops the top.
draw_from_discard_pile_pending_first(g, player_id) ==
    IF g.pending_discard # <<>> /\ g.has_discarded /\ g.discard_pile # <<>>
    THEN LET pushed == g.discard_pile \o g.pending_discard[1]
             top_discard == pushed[Len(pushed)]
         IN  Result([g EXCEPT !.players[player_id].hand =
                                  Append(g.players[player_id].hand, top_discard),
                              !.discard_pile = SubSeq(pushed, 1, Len(pushed) - 1),
                              !.pending_discard = <<>>,
                              !.has_discarded = FALSE],
                    TRUE, TRUE)
    ELSE Result(g, FALSE, FALSE)

\* draw_from_discard_pile that hands out the top of the discard pile and
\* leaves it on the pile as well.
draw_from_discard_pile_keeps_top(g, player_id) ==
    IF g.pending_discard # <<>> /\ g.has_discarded /\ g.discard_pile # <<>>
    THEN LET top_discard == g.discard_pile[Len(g.discard_pile)]
         IN  Result([g EXCEPT !.players[player_id].hand =
                                  Append(g.players[player_id].hand, top_discard),
                              !.discard_pile = g.discard_pile \o g.pending_discard[1],
                              !.pending_discard = <<>>,
                              !.has_discarded = FALSE],
                    TRUE, TRUE)
    ELSE Result(g, FALSE, FALSE)

\* draw_from_discard_pile that takes the top of the discard pile and does not
\* put the pending cards on it.
draw_from_discard_pile_drops_pending(g, player_id) ==
    IF g.pending_discard # <<>> /\ g.has_discarded /\ g.discard_pile # <<>>
    THEN LET top_discard == g.discard_pile[Len(g.discard_pile)]
             popped == SubSeq(g.discard_pile, 1, Len(g.discard_pile) - 1)
         IN  Result([g EXCEPT !.players[player_id].hand =
                                  Append(g.players[player_id].hand, top_discard),
                              !.discard_pile = popped,
                              !.pending_discard = <<>>,
                              !.has_discarded = FALSE],
                    TRUE, TRUE)
    ELSE Result(g, FALSE, FALSE)

\* action == "draw_from_discard_pile" (lines 288-301).
draw_from_discard_pile(g, player_id) ==
    IF g.pending_discard # <<>> /\ g.has_discarded /\ g.discard_pile # <<>>
    THEN LET top_discard == g.discard_pile[Len(g.discard_pile)]
             popped == SubSeq(g.discard_pile, 1, Len(g.discard_pile) - 1)
         IN  Result([g EXCEPT !.players[player_id].hand =
                                  Append(g.players[player_id].hand, top_discard),
                              !.discard_pile = popped \o g.pending_discard[1],
                              !.pending_discard = <<>>,
                              !.has_discarded = FALSE],
                    TRUE, TRUE)
    ELSE Result(g, FALSE, FALSE)

\* same_number_skip without the comparison of line 309.
same_number_skip_no_match(g, player_id) ==
    IF g.pending_discard # <<>> /\ g.has_discarded /\ g.discard_pile # <<>>
    THEN Result([g EXCEPT !.discard_pile = g.discard_pile \o g.pending_discard[1],
                          !.pending_discard = <<>>,
                          !.has_discarded = FALSE],
                TRUE, TRUE)
    ELSE Result(g, FALSE, FALSE)

\* same_number_skip that draws a card from the deck as draw_card does.
same_number_skip_draws(g, player_id) ==
    IF g.pending_discard # <<>> /\ g.has_discarded /\ g.discard_pile # <<>>
    THEN LET pending_cards == g.pending_discard[1]
             top_discard == g.discard_pile[Len(g.discard_pile)]
         IN  IF \E i \in 1..Len(pending_cards) :
                    get_card_value(pending_cards[i]) = get_card_value(top_discard)
             THEN Result([g EXCEPT !.deck = after_deal(g.deck),
                                   !.players[player_id].hand =
                                       Append(g.players[player_id].hand, deal_card(g.deck)),
                                   !.discard_pile = g.discard_pile \o pending_cards,
                                   !.pending_discard = <<>>,
                                   !.has_discarded = FALSE],
                         TRUE, TRUE)
             ELSE Result(g, FALSE, FALSE)
    ELSE Result(g, FALSE, FALSE)

\* same_number_skip that drops the pending discard when no card matches.
same_number_skip_drops_pending(g, player_id) ==
    IF g.pending_discard # <<>> /\ g.has_discarded /\ g.discard_pile # <<>>
    THEN LET pending_cards == g.pending_discard[1]
             top_discard == g.discard_pile[Len(g.discard_pile)]
         IN  IF \E i \in 1..Len(pending_cards) :
                    get_card_value(pending_cards[i]) = get_card_value(top_discard)
             THEN Result([g EXCEPT !.discard_pile = g.discard_pile \o pending_cards,
                                   !.pending_discard = <<>>,
                                   !.has_discarded = FALSE],
                         TRUE, TRUE)
             ELSE Result([g EXCEPT !.pending_discard = <<>>,
                                   !.has_discarded = FALSE],
                         FALSE, FALSE)
    ELSE Result(g, FALSE, FALSE)

\* action == "same_number_skip" (lines 303-325).
same_number_skip(g, player_id) ==
    IF g.pending_discard # <<>> /\ g.has_discarded /\ g.discard_pile # <<>>
    THEN LET pending_cards == g.pending_discard[1]
             top_discard == g.discard_pile[Len(g.discard_pile)]
         IN  IF \E i \in 1..Len(pending_cards) :
                    get_card_value(pending_cards[i]) = get_card_value(top_discard)
             THEN Result([g EXCEPT !.discard_pile = g.discard_pile \o pending_cards,
                                   !.pending_discard = <<>>,
                                   !.has_discarded = FALSE],
                         TRUE, TRUE)
             ELSE Result(g, FALSE, FALSE)
    ELSE Result(g, FALSE, FALSE)

\* The least hand sum over the players (min(hand_sums.values())).
min_sum(g) ==
    CHOOSE m \in { hand_sum(g.players[pid].hand) : pid \in DOMAIN g.players } :
        \A pid \in DOMAIN g.players : m <= hand_sum(g.players[pid].hand)

\* show with the highest sum winning instead of the lowest.
show_highest_wins(g, player_id) ==
    Result([g EXCEPT !.show_results =
                [pid \in (DOMAIN g.show_results) \cup (DOMAIN g.players) |->
                    IF pid \in DOMAIN g.players
                    THEN IF \A q \in DOMAIN g.players :
                                hand_sum(g.players[q].hand) <= hand_sum(g.players[pid].hand)
                         THEN "Winner" ELSE "Losser"
                    ELSE g.show_results[pid]]],
           TRUE, FALSE)

\* action == "show" (lines 327-346): show_results keeps the entries of ids
\* that are no longer players and overwrites those of the players.
show(g, player_id) ==
    Result([g EXCEPT !.show_results =
                [pid \in (DOMAIN g.show_results) \cup (DOMAIN g.players) |->
                    IF pid \in DOMAIN g.players
                    THEN IF hand_sum(g.players[pid].hand) = min_sum(g)
                         THEN "Winner" ELSE "Losser"
                    ELSE g.show_results[pid]]],
           TRUE, FALSE)

\* action == "new_game" (lines 348-355): show_results is deleted and
\* start_game() is called with its default cards_per_player.
new_game(g, player_id, d) ==
    Result(start_game([g EXCEPT !.show_results = <<>>], d, cards_per_player),
           TRUE, FALSE)

\* Game.handle_action on the message [action, card], with d the deck a
\* Deck() call would return.
handle_action(g, player_id, action_data, d) ==
    IF ~g.game_started
    THEN Result(g, FALSE, FALSE)
    ELSE IF g.current_turn_player_id # player_id
    THEN Result(g, FALSE, FALSE)
    ELSE LET action == action_data.action
         IN  CASE action = "discard_card" -> discard_card(g, player_id, action_data.card)
               [] action = "draw_card" -> draw_card(g, player_id)
               [] action = "draw_from_discard_pile" -> draw_from_discard_pile(g, player_id)
               [] action = "same_number_skip" -> same_number_skip(g, player_id)
               [] action = "show" -> show(g, player_id)
               [] action = "new_game" -> new_game(g, player_id, d)
               [] OTHER -> Result(g, FALSE, FALSE)

(* ------------------------- server and threads -------------------------- *)
VARIABLES
    game,     \* the Game object
    clients,  \* the identities registered in the clients dict
    pc,       \* where each identity's handler thread is: "none" (no thread),
              \* "joined" (registered, start attempt not yet made), "recv"
    prev,     \* the Game object as it was before the handler step taken last
    last,     \* the handler step taken last and what its calls returned
    sent,     \* the identities the step taken last sent a view to
    bcast,    \* of each identity's thread, the broadcast_state call it is in
              \* or was in last (used where the handler is taken step by step)
    lock,     \* Game.lock: the identity whose thread holds it, or None
    delivered,\* of each identity, the view its socket was sent last (used
              \* where the handler is taken step by step)
    steps     \* handler steps taken so far

vars == <<game, clients, pc, prev, last, sent, bcast, lock, delivered, steps>>

\* The action names a client sends, and one the server no longer acts on
\* (any other name takes the same path through handle_action).
Actions == {"discard_card", "draw_card", "draw_from_discard_pile",
            "same_number_skip", "show", "new_game", "take_pending_discard"}

\* The decks a Deck() call made while handling action_data can return: only
\* new_game reaches one (in start_game), so the others draw no deck.
DecksFor(action_data) ==
    IF action_data.action = "new_game" THEN Decks ELSE {Shuffled(2)}

\* The "card" fields tried with discard_card by identity id: the display
\* form of each card it holds, a card of another suit, a rank-only lower-case
\* word, a word that is no rank, and no card at all.
CardInputs(id) ==
    (IF id \in DOMAIN game.players
     THEN { CardStr(game.players[id].hand[i]) :
                i \in 1..Len(game.players[id].hand) }
     ELSE {})
    \cup { <<"Ace", "of", "Hearts">>, <<"king">>, <<"Joker", "of", "Hearts">>, <<>> }

NoMessage == [action |-> "", card |-> <<>>]

\* The messages identity id may send.
Messages(id) ==
    { [action |-> "discard_card", card |-> c] : c \in CardInputs(id) }
    \cup { [action |-> a, card |-> <<>>] : a \in Actions \ {"discard_card"} }

\* What the handler has read of a message when it is done with it: the
\* action, and the card only where handle_action evaluates
\* action_data.get("card"), at line 246, that is for a discard_card that
\* passed the turn gate (lines 230-236) and the gate of line 245.
FieldsRead(g, id, action_data) ==
    IF /\ g.game_started
       /\ g.current_turn_player_id = id
       /\ action_data.action = "discard_card"
       /\ g.pending_discard = <<>> /\ ~g.has_discarded
    THEN action_data
    ELSE [action_data EXCEPT !.card = <<>>]

\* For a message, action_processed and advance_turn are what handle_action
\* returned; for a connect or a start attempt, action_processed is whether
\* add_player or start_game succeeded; for a disconnect, whether the identity
\* was registered, and advance_turn whether it held the turn (line 100).
Event(op, id, action_data, action_processed, advance_turn) ==
    [ op |-> op, pid |-> id, action_data |-> action_data,
      action_processed |-> action_processed, advance_turn |-> advance_turn ]

\* broadcast_state (lines 372-401) over the registry cl and the game g: the
\* identities that are sent their view, get_game_state(g, id); a registered
\* identity that is no player gets None from get_game_state and is skipped.
broadcast_state(cl, g) == { id \in cl : id \in DOMAIN g.players }

\* No view has been sent to any socket.
NothingDelivered == [id \in Ids |-> <<>>]

\* A thread that has called broadcast_state never.
Idle == [todo |-> <<>>, began |-> {}, tried |-> {}, skipped |-> {},
         failed |-> {}, view |-> <<>>, then |-> "recv"]

\* A thread whose last broadcast_state call began with the registry cl, sent
\* every identity of it its view and returned to the receive loop.
Finished(cl) == [todo |-> <<>>, began |-> cl, tried |-> cl, skipped |-> {},
                 failed |-> {}, view |-> <<>>, then |-> "recv"]

Init ==
    /\ game \in { NewGame(d) : d \in Decks }
    /\ clients = {}
    /\ pc = [id \in Ids |-> "none"]
    /\ prev = game
    /\ last = Event("init", None, NoMessage, FALSE, FALSE)
    /\ sent = {}
    /\ bcast = [id \in Ids |-> Idle]
    /\ lock = None
    /\ delivered = NothingDelivered
    /\ steps = 0

\* client_handler, lines 420-430: add_player; a refused connection is closed
\* and its thread returns, an accepted one is registered in clients.
Connect(id) ==
    /\ steps < MaxSteps
    /\ pc[id] \in {"none", "recv"}
    /\ game' = add_player(game, id)
    /\ IF add_player_ok(game, id)
       THEN /\ clients' = clients \cup {id}
            /\ pc' = [pc EXCEPT ![id] = "joined"]
       ELSE UNCHANGED <<clients, pc>>
    /\ last' = Event("connect", id, NoMessage, add_player_ok(game, id), FALSE)
    /\ sent' = {}
    /\ prev' = game
    /\ steps' = steps + 1
    /\ UNCHANGED <<bcast, lock, delivered>>

\* client_handler, lines 432-437: the start attempt and the first broadcast.
Start(id) ==
    /\ steps < MaxSteps
    /\ pc[id] = "joined"
    /\ \E d \in Decks :
          game' = IF ~game.game_started
                     /\ Cardinality(DOMAIN game.players) >= min_players
                  THEN start_game(game, d, cards_per_player)
                  ELSE game
    /\ pc' = [pc EXCEPT ![id] = "recv"]
    /\ last' = Event("start", id, NoMessage, start_game_ok(game), FALSE)
    /\ sent' = broadcast_state(clients, game')
    /\ prev' = game
    /\ steps' = steps + 1
    /\ UNCHANGED <<clients, bcast, lock, delivered>>

\* client_handler, lines 440-472: one received message: handle_action, then
\* next_turn when it asks for it (and the broadcast, when it was processed).
Message(id, action_data) ==
    /\ steps < MaxSteps
    /\ pc[id] = "recv"
    /\ \E d \in DecksFor(action_data) :
          \E r \in {handle_action(game, id, action_data, d)} :
              /\ game' = IF r.action_processed /\ r.advance_turn
                         THEN next_turn(r.g)
                         ELSE r.g
              /\ last' = Event("message", id, FieldsRead(game, id, action_data),
                               r.action_processed, r.advance_turn)
              /\ sent' = IF r.action_processed
                         THEN broadcast_state(clients, game')
                         ELSE {}
    /\ prev' = game
    /\ steps' = steps + 1
    /\ UNCHANGED <<clients, pc, bcast, lock, delivered>>

\* client_handler's finally and remove_client, lines 404-415, 481-483.
Disconnect(id) ==
    /\ steps < MaxSteps
    /\ pc[id] = "recv"
    /\ game' = IF id \in clients THEN remove_player(game, id) ELSE game
    /\ clients' = clients \ {id}
    /\ pc' = [pc EXCEPT ![id] = "none"]
    /\ last' = Event("disconnect", id, NoMessage, id \in clients,
                     id \in clients /\ game.current_turn_player_id = id)
    /\ sent' = broadcast_state(clients', game')
    /\ prev' = game
    /\ steps' = steps + 1
    /\ UNCHANGED <<bcast, lock, delivered>>

Next ==
    \E id \in Ids :
        \/ Connect(id)
        \/ Start(id)
        \/ \E action_data \in Messages(id) : Message(id, action_data)
        \/ Disconnect(id)

Spec == Init /\ [][Next]_vars

RECURSIVE Seated(_, _)
\* The game after identities 1..n have joined a new server, in that order.
Seated(n, d) == IF n = 0 THEN NewGame(d) ELSE add_player(Seated(n - 1, d), n)

\* A table that has just started: identities 1..n (n >= min_players) joined
\* before the first start attempt, every start attempt has been made and
\* every handler thread is in its receive loop.  Spec reaches each of these
\* states (n joins and n start attempts); SpecSeated starts from them, which
\* leaves its MaxSteps steps for the play.
InitSeated ==
    /\ \E n \in min_players..MaxIds : \E d \in Decks :
          /\ game = start_game(Seated(n, d), d, cards_per_player)
          /\ clients = 1..n
          /\ pc = [id \in Ids |-> IF id <= n THEN "recv" ELSE "none"]
          /\ prev = game
          /\ last = Event("start", n, NoMessage, FALSE, FALSE)
          /\ sent = 1..n
    /\ bcast = [id \in Ids |-> Idle]
    /\ lock = None
    /\ delivered = NothingDelivered
    /\ steps = 0

SpecSeated == InitSeated /\ [][Next]_vars

\* A table on which the turn holder's show has just been accepted: a
\* just-started table of InitSeated, then the show message of identity 1, who
\* joined first and holds the turn.  SpecSeated reaches each of these states
\* in one step; SpecShown starts from them.
InitShown ==
    /\ \E n \in min_players..MaxIds : \E d \in Decks :
          LET seated == start_game(Seated(n, d), d, cards_per_player)
              action_data == [action |-> "show", card |-> <<>>]
              r == handle_action(seated, 1, action_data, d)
          IN  /\ prev = seated
              /\ game = r.g
              /\ clients = 1..n
              /\ pc = [id \in Ids |-> IF id <= n THEN "recv" ELSE "none"]
              /\ last = Event("message", 1, action_data,
                              r.action_processed, r.advance_turn)
              /\ sent = broadcast_state(1..n, r.g)
    /\ bcast = [id \in Ids |-> Idle]
    /\ lock = None
    /\ delivered = NothingDelivered
    /\ steps = 0

SpecShown == InitShown /\ [][Next]_vars

RECURSIVE DrawnDown(_, _, _)
\* The play of a table down to an empty deck: turn after turn the turn holder
\* discards the rank of the first card of its hand and draws from the deck,
\* each message handled as Message handles it.  The result is the game, the
\* game before the message handled last, and the sender of that message.
DrawnDown(g, before, by) ==
    IF g.deck = <<>>
    THEN [g |-> g, prev |-> before, pid |-> by]
    ELSE LET pid == g.current_turn_player_id
             discarded ==
                 handle_action(g, pid,
                               [action |-> "discard_card",
                                card |-> CardStr(g.players[pid].hand[1])],
                               Shuffled(2)).g
             drawn ==
                 handle_action(discarded, pid,
                               [action |-> "draw_card", card |-> <<>>],
                               Shuffled(2)).g
         IN  DrawnDown(next_turn(drawn), discarded, pid)

\* A table whose deck has just been emptied by the draw_card of the player
\* before the turn holder: a just-started table of InitSeated played by
\* DrawnDown.  Every message of that play is accepted, so Spec reaches these
\* states by Message steps; SpecDrawnDown starts from them.
InitDrawnDown ==
    /\ \E n \in min_players..MaxIds : \E d \in Decks :
          LET seated == start_game(Seated(n, d), d, cards_per_player)
              r == DrawnDown(seated, seated, None)
          IN  /\ game = r.g
              /\ prev = r.prev
              /\ clients = 1..n
              /\ pc = [id \in Ids |-> IF id <= n THEN "recv" ELSE "none"]
              /\ last = Event("message", r.pid,
                              [action |-> "draw_card", card |-> <<>>], TRUE, TRUE)
              /\ sent = broadcast_state(1..n, r.g)
    /\ bcast = [id \in Ids |-> Idle]
    /\ lock = None
    /\ delivered = NothingDelivered
    /\ steps = 0

SpecDrawnDown == InitDrawnDown /\ [][Next]_vars

RECURSIVE Played(_, _, _, _)
\* k turns of play on a table: turn after turn the turn holder discards the
\* rank of the first card of its hand and draws from the deck, each message
\* handled as Message handles it.  The result is as for DrawnDown.
Played(g, before, by, k) ==
    IF k = 0
    THEN [g |-> g, prev |-> before, pid |-> by]
    ELSE LET pid == g.current_turn_player_id
             discarded ==
                 handle_action(g, pid,
                               [action |-> "discard_card",
                                card |-> CardStr(g.players[pid].hand[1])],
                               Shuffled(2)).g
             drawn ==
                 handle_action(discarded, pid,
                               [action |-> "draw_card", card |-> <<>>],
                               Shuffled(2)).g
         IN  Played(next_turn(drawn), discarded, pid, k - 1)

\* A table on which the turn has come to the player who joined last: a
\* just-started table of InitSeated on which every player before the last has
\* played one turn.  Every message of that play is accepted, so Spec reaches
\* these states by Message steps; SpecLastTurn starts from them.
InitLastTurn ==
    /\ \E n \in min_players..MaxIds : \E d \in Decks :
          LET seated == start_game(Seated(n, d), d, cards_per_player)
              r == Played(seated, seated, None, n - 1)
          IN  /\ game = r.g
              /\ prev = r.prev
              /\ clients = 1..n
              /\ pc = [id \in Ids |-> IF id <= n THEN "recv" ELSE "none"]
              /\ last = Event("message", r.pid,
                              [action |-> "draw_card", card |-> <<>>], TRUE, TRUE)
              /\ sent = broadcast_state(1..n, r.g)
    /\ bcast = [id \in Ids |-> Idle]
    /\ lock = None
    /\ delivered = NothingDelivered
    /\ steps = 0

SpecLastTurn == InitLastTurn /\ [][Next]_vars

\* The game after one message of identity id, handled as Message handles it:
\* handle_action, then next_turn when it asks for it.
AfterMessage(g, id, action_data) ==
    LET r == handle_action(g, id, action_data, Shuffled(2))
    IN  IF r.action_processed /\ r.advance_turn THEN next_turn(r.g) ELSE r.g

RECURSIVE AfterMessages(_, _)
\* The game after the messages ms (pairs of sender and message), in order.
AfterMessages(g, ms) ==
    IF ms = <<>> THEN g
    ELSE AfterMessages(AfterMessage(g, ms[1][1], ms[1][2]), Tail(ms))

\* An order Deck() can come out in (random.shuffle may return any): dealt to
\* two players, the first gets three Kings, three Queens and a Jack, the
\* second the Queen and the Jack of two other suits and five low cards, and
\* the opening card is the fourth King.
RunOutDeck ==
    LET dealt == <<12, 50, 25, 23, 38, 1, 11, 2, 24, 3, 37, 4, 10, 5, 51>>
        rest == SelectSeq(NewDeckCards, LAMBDA card : card \notin Range(dealt))
        all == dealt \o rest
    IN  [i \in 1..Len(all) |-> all[Len(all) + 1 - i]]

\* The play in which identity 1 gets rid of its hand: it discards its Kings
\* and skips on the opening King, discards its Queens and skips on the Queen
\* that identity 2 has discarded, then the same with the Jack.
RunOutPlay ==
    LET discard(card) == [action |-> "discard_card", card |-> CardStr(card)]
        skip == [action |-> "same_number_skip", card |-> <<>>]
        draw == [action |-> "draw_card", card |-> <<>>]
    IN  << <<1, discard(12)>>, <<1, skip>>, <<2, discard(50)>>, <<2, draw>>,
           <<1, discard(11)>>, <<1, skip>>, <<2, discard(23)>>, <<2, draw>>,
           <<1, discard(10)>>, <<1, skip>> >>

\* A two-player table dealt from RunOutDeck on which RunOutPlay has been
\* played: identity 1 holds no card and identity 2 holds the turn.  Every
\* message of the play is accepted, so Spec reaches this state by Message
\* steps; SpecRunOut starts from it.
InitRunOut ==
    /\ LET seated == start_game(Seated(2, RunOutDeck), RunOutDeck, cards_per_player)
           before == AfterMessages(seated, SubSeq(RunOutPlay, 1, Len(RunOutPlay) - 1))
       IN  /\ prev = before
           /\ game = AfterMessage(before, 1, RunOutPlay[Len(RunOutPlay)][2])
    /\ clients = 1..2
    /\ pc = [id \in Ids |-> IF id <= 2 THEN "recv" ELSE "none"]
    /\ last = Event("message", 1, RunOutPlay[Len(RunOutPlay)][2], TRUE, TRUE)
    /\ sent = 1..2
    /\ bcast = [id \in Ids |-> Idle]
    /\ lock = None
    /\ delivered = NothingDelivered
    /\ steps = 0

SpecRunOut == InitRunOut /\ [][Next]_vars

(* ------------------ the handler threads, step by step ------------------ *)
\* client_handler takes the game lock once in handle_action, once more in
\* next_turn and once for every get_game_state of broadcast_state, and sends
\* without it; between two of these any other connection's thread may run.
\* The actions below are those steps.  pc[id] is "recv" (in recv), "advance"
\* (handle_action returned advance_turn, next_turn not yet called),
\* "broadcast" (about to call broadcast_state from the receive loop),
\* "closing" (about to call it from remove_client), "send" (in its loop) or
\* "none" (thread ended).

\* list(clients.items()): the registry in insertion order, which is the order
\* of the identities for the tables of Seated.
ClientList(cl) ==
    LET Registered(id) == id \in cl
    IN  SelectSeq([id \in 1..MaxIds |-> id], Registered)

\* The messages sent where the handler is taken step by step: the discard of
\* the first card held and the two draws.
ThreadMessages(id) ==
    (IF id \in DOMAIN game.players /\ game.players[id].hand # <<>>
     THEN { [action |-> "discard_card", card |-> CardStr(game.players[id].hand[1])] }
     ELSE {})
    \cup { [action |-> a, card |-> <<>>] : a \in {"draw_card", "draw_from_discard_pile"} }

\* "with self.lock:" at the head of handle_action, remove_player, next_turn
\* and get_game_state (lines 229, 96, 144, 182): thread id, about to enter
\* one of them, gets the lock when no thread holds it.  The step that follows
\* is the body of the method, which gives the lock back at its end.
ThreadLock(id) ==
    /\ steps < MaxSteps
    /\ lock = None
    /\ \/ pc[id] \in {"recv", "advance"}
       \/ pc[id] = "send" /\ bcast[id].view = <<>>
    /\ lock' = id
    /\ last' = Event("lock", id, NoMessage, TRUE, FALSE)
    /\ sent' = {}
    /\ prev' = game
    /\ UNCHANGED <<game, clients, pc, bcast, delivered, steps>>

\* Lines 450-454: a message has been received and handle_action runs.
ThreadHandle(id, action_data) ==
    /\ steps < MaxSteps
    /\ pc[id] = "recv"
    /\ lock = id
    /\ \E r \in {handle_action(game, id, action_data, Shuffled(2))} :
          /\ game' = r.g
          /\ pc' = [pc EXCEPT ![id] = IF ~r.action_processed THEN "recv"
                                      ELSE IF r.advance_turn THEN "advance"
                                      ELSE "broadcast"]
          /\ last' = Event("handle", id, FieldsRead(game, id, action_data),
                           r.action_processed, r.advance_turn)
    /\ lock' = None
    /\ sent' = {}
    /\ prev' = game
    /\ steps' = steps + 1
    /\ UNCHANGED <<clients, bcast, delivered>>

\* Lines 458-461: game.next_turn().
ThreadAdvance(id) ==
    /\ steps < MaxSteps
    /\ pc[id] = "advance"
    /\ lock = id
    /\ game' = next_turn(game)
    /\ pc' = [pc EXCEPT ![id] = "broadcast"]
    /\ last' = Event("advance", id, NoMessage, TRUE, TRUE)
    /\ lock' = None
    /\ sent' = {}
    /\ prev' = game
    /\ steps' = steps + 1
    /\ UNCHANGED <<clients, bcast, delivered>>

\* Line 375: broadcast_state copies the registry (no lock is taken for it);
\* with an empty registry its loop has nothing to do and it returns.
ThreadSnapshot(id) ==
    /\ steps < MaxSteps
    /\ pc[id] \in {"broadcast", "closing"}
    /\ LET then == IF pc[id] = "broadcast" THEN "recv" ELSE "none"
       IN  /\ bcast' = [bcast EXCEPT ![id] =
                           [todo |-> ClientList(clients), began |-> clients,
                            tried |-> {}, skipped |-> {}, failed |-> {},
                            view |-> <<>>, then |-> then]]
           /\ pc' = [pc EXCEPT ![id] = IF clients = {} THEN then ELSE "send"]
    /\ last' = Event("snapshot", id, NoMessage, clients # {}, FALSE)
    /\ sent' = {}
    /\ prev' = game
    /\ steps' = steps + 1
    /\ UNCHANGED <<game, clients, lock, delivered>>

\* ThreadProject that comes back from get_game_state with the lock still held.
ThreadProject_keeps_lock(id) ==
    /\ steps < MaxSteps
    /\ pc[id] = "send"
    /\ bcast[id].view = <<>>
    /\ lock = id
    /\ LET b == bcast[id]
           c == Head(b.todo)
       IN  IF c \in DOMAIN game.players
           THEN /\ bcast' = [bcast EXCEPT ![id].view = <<c, get_game_state(game, c)>>]
                /\ UNCHANGED pc
                /\ last' = Event("project", id, NoMessage, TRUE, FALSE)
           ELSE /\ bcast' = [bcast EXCEPT ![id].todo = Tail(b.todo),
                                          ![id].skipped = b.skipped \cup {c}]
                /\ pc' = [pc EXCEPT ![id] = IF Tail(b.todo) = <<>> THEN b.then
                                            ELSE "send"]
                /\ last' = Event("project", id, NoMessage, FALSE, FALSE)
    /\ sent' = {}
    /\ prev' = game
    /\ steps' = steps + 1
    /\ UNCHANGED <<game, clients, lock, delivered>>

\* Lines 377-381, 392-393: get_game_state for the next identity of the copy,
\* which gives the lock back when it returns (line 204); an identity that is
\* no player any more gets None and is passed over.
ThreadProject(id) ==
    /\ steps < MaxSteps
    /\ pc[id] = "send"
    /\ bcast[id].view = <<>>
    /\ lock = id
    /\ LET b == bcast[id]
           c == Head(b.todo)
       IN  IF c \in DOMAIN game.players
           THEN /\ bcast' = [bcast EXCEPT ![id].view = <<c, get_game_state(game, c)>>]
                /\ UNCHANGED pc
                /\ last' = Event("project", id, NoMessage, TRUE, FALSE)
           ELSE /\ bcast' = [bcast EXCEPT ![id].todo = Tail(b.todo),
                                          ![id].skipped = b.skipped \cup {c}]
                /\ pc' = [pc EXCEPT ![id] = IF Tail(b.todo) = <<>> THEN b.then
                                            ELSE "send"]
                /\ last' = Event("project", id, NoMessage, FALSE, FALSE)
    /\ lock' = None
    /\ sent' = {}
    /\ prev' = game
    /\ steps' = steps + 1
    /\ UNCHANGED <<game, clients, delivered>>

\* Lines 383-391: pickle.dumps and sendall of the view, outside every
\* "with self.lock"; ok is whether sendall returned.  When it raised, the
\* except of line 388 prints the error (the remove_client of line 391 is
\* commented out) and the loop goes on with the next identity.
ThreadSend(id, ok) ==
    /\ steps < MaxSteps
    /\ pc[id] = "send"
    /\ bcast[id].view # <<>>
    /\ LET b == bcast[id]
           c == b.view[1]
       IN  /\ bcast' = [bcast EXCEPT ![id].todo = Tail(b.todo),
                                     ![id].tried = b.tried \cup {c},
                                     ![id].failed = IF ok THEN b.failed
                                                    ELSE b.failed \cup {c},
                                     ![id].view = <<>>]
           /\ pc' = [pc EXCEPT ![id] = IF Tail(b.todo) = <<>> THEN b.then
                                       ELSE "send"]
           /\ sent' = IF ok THEN {c} ELSE {}
           /\ delivered' = IF ok THEN [delivered EXCEPT ![c] = b.view[2]]
                           ELSE delivered
    /\ last' = Event("send", id, NoMessage, ok, FALSE)
    /\ prev' = game
    /\ steps' = steps + 1
    /\ UNCHANGED <<game, clients, lock>>

\* recv returns no data or raises (lines 444-446, 474-479); the finally of
\* line 481 calls remove_client, lines 406-413: remove_player, the registry
\* entry deleted, the socket closed.
ThreadLeave(id) ==
    /\ steps < MaxSteps
    /\ pc[id] = "recv"
    /\ lock = id
    /\ game' = IF id \in clients THEN remove_player(game, id) ELSE game
    /\ clients' = clients \ {id}
    /\ pc' = [pc EXCEPT ![id] = "closing"]
    /\ last' = Event("leave", id, NoMessage, id \in clients,
                     id \in clients /\ game.current_turn_player_id = id)
    /\ lock' = None
    /\ sent' = {}
    /\ prev' = game
    /\ steps' = steps + 1
    /\ UNCHANGED <<bcast, delivered>>

ThreadNext ==
    \E id \in Ids :
        \/ ThreadLock(id)
        \/ \E action_data \in ThreadMessages(id) : ThreadHandle(id, action_data)
        \/ ThreadAdvance(id)
        \/ ThreadSnapshot(id)
        \/ ThreadProject(id)
        \/ \E ok \in BOOLEAN : ThreadSend(id, ok)
        \/ ThreadLeave(id)

\* A just-started table of InitSeated, every thread having sent its first
\* broadcast to all, on which identity 1, the turn holder, has discarded the
\* rank of its first card, every identity was sent the result, and then
\*  - thread 1 has had its draw_card accepted by handle_action and has not
\*    yet called next_turn, or
\*  - thread 1 has had a second message, draw_from_discard_pile, accepted, has
\*    called next_turn and, in broadcast_state, has copied the registry and
\*    computed the view of the first identity, which it is about to send, or
\*  - as before, and then connection 2 has closed and its thread, in the
\*    broadcast_state of remove_client, has copied the registry and computed
\*    the view of the first identity as well.
\* No thread holds the lock.
InitThreads ==
    /\ \E n \in min_players..MaxIds : \E d \in Decks :
          LET seated == start_game(Seated(n, d), d, cards_per_player)
              discarded ==
                  handle_action(seated, 1,
                                [action |-> "discard_card",
                                 card |-> CardStr(seated.players[1].hand[1])],
                                d).g
              draw == [action |-> "draw_card", card |-> <<>>]
              pile == [action |-> "draw_from_discard_pile", card |-> <<>>]
              drawn == handle_action(discarded, 1, draw, d)
              taken == next_turn(handle_action(discarded, 1, pile, d).g)
              left == remove_player(taken, 2)
              others == [id \in Ids |-> IF id <= n THEN "recv" ELSE "none"]
              before == [id \in Ids |-> IF id <= n THEN Finished(1..n) ELSE Idle]
              sending == [todo |-> ClientList(1..n), began |-> 1..n,
                          tried |-> {}, skipped |-> {}, failed |-> {},
                          view |-> <<1, get_game_state(taken, 1)>>,
                          then |-> "recv"]
              closing == [todo |-> ClientList((1..n) \ {2}),
                          began |-> (1..n) \ {2},
                          tried |-> {}, skipped |-> {}, failed |-> {},
                          view |-> <<1, get_game_state(left, 1)>>,
                          then |-> "none"]
          IN  /\ \/ /\ game = drawn.g
                    /\ prev = discarded
                    /\ clients = 1..n
                    /\ pc = [others EXCEPT ![1] = "advance"]
                    /\ last = Event("handle", 1, draw,
                                    drawn.action_processed, drawn.advance_turn)
                    /\ bcast = before
                 \/ /\ game = taken
                    /\ prev = taken
                    /\ clients = 1..n
                    /\ pc = [others EXCEPT ![1] = "send"]
                    /\ last = Event("project", 1, NoMessage, TRUE, FALSE)
                    /\ bcast = [before EXCEPT ![1] = sending]
                 \/ /\ game = left
                    /\ prev = left
                    /\ clients = (1..n) \ {2}
                    /\ pc = [others EXCEPT ![1] = "send", ![2] = "send"]
                    /\ last = Event("project", 2, NoMessage, TRUE, FALSE)
                    /\ bcast = [before EXCEPT ![1] = sending, ![2] = closing]
              /\ delivered = [id \in Ids |-> IF id <= n
                                             THEN get_game_state(discarded, id)
                                             ELSE <<>>]
              /\ sent = {}
    /\ lock = None
    /\ steps = 0

SpecThreads == InitThreads /\ [][ThreadNext]_vars

(* ------------------------------ properties ----------------------------- *)
\* Each property below is a predicate on the state after a handler step:
\* prev is the game the step started from, game the game it left, last what
\* the step was and what its calls returned.
Hand(g, pid) == g.players[pid].hand

\* The cards of the pending discard (none when there is no pending discard).
PendingCards(g) == IF g.pending_discard = <<>> THEN <<>> ELSE g.pending_discard[1]

RECURSIVE HandSizes(_, _)
\* The hand sizes of the players in S, added up.
HandSizes(g, S) ==
    IF S = {} THEN 0
    ELSE LET pid == CHOOSE x \in S : TRUE
         IN  Len(Hand(g, pid)) + HandSizes(g, S \ {pid})

\* |deck| + the present players' hands + |discard_pile| + |pending cards|.
TotalCards(g) ==
    Len(g.deck) + HandSizes(g, DOMAIN g.players) + Len(g.discard_pile)
        + Len(PendingCards(g))

\* The rank-value of a card, read off its number: 2-10 face value, Jack 11,
\* Queen 12, King 13, Ace 1.
RankValue(card) ==
    LET r == (card - 1) % 13
    IN  IF r <= 8 THEN r + 2 ELSE IF r = 12 THEN 1 ELSE r + 2

\* The id that follows pid in the turn order, cyclically.
Follower(order, pid) == order[(IndexOf(order, pid) % Len(order)) + 1]

\* The step taken last handled a message with this action.
Handled(action) == last.op = "message" /\ last.action_data.action = action

\* The turn holder of the game the last step started from sent the message.
ByTurnHolder == prev.game_started /\ last.pid = prev.current_turn_player_id

\* A start_game has succeeded at some time in g's past: only start_game moves
\* current_turn_player_id away from None, and nothing moves it back.
EverStarted(g) == g.current_turn_player_id # None

\* C1 (Conservation): in every state reached after the first successful
\* start_game, |deck| + the present players' hands + |discard_pile| + the
\* pending cards = 52.
C1_Conservation == EverStarted(game) => TotalCards(game) = 52

\* C2 (Single current turn): while the game is started and no round result is
\* set, current_turn_player_id is one player id, a member of player_order and
\* of the players map.
C2_SingleCurrentTurn ==
    (game.game_started /\ game.show_results = <<>>) =>
        /\ game.current_turn_player_id \in Ids
        /\ game.current_turn_player_id \in Range(game.player_order)
        /\ game.current_turn_player_id \in DOMAIN game.players

\* C2 witness: a started game without round result from which the turn holder
\* has just left, two or more players remaining.
C2_Witness ==
    /\ game.game_started /\ game.show_results = <<>>
    /\ last.op = "disconnect" /\ last.advance_turn
    /\ Cardinality(DOMAIN game.players) >= 2

\* C3 (Discard-before-draw): in a started game, a draw_card, a
\* draw_from_discard_pile or a same_number_skip of the turn holder is rejected
\* when there is no pending discard, and a discard_card of the turn holder is
\* rejected when there is one.
C3_DiscardBeforeDraw ==
    \A a \in Actions :
        ( /\ Handled(a)
          /\ ByTurnHolder
          /\ \/ /\ a \in {"draw_card", "draw_from_discard_pile", "same_number_skip"}
                /\ prev.pending_discard = <<>>
             \/ /\ a = "discard_card"
                /\ prev.pending_discard # <<>> )
        => (~last.action_processed /\ game = prev)

\* C3 witness: the turn holder, having discarded, sent another discard_card
\* and it was rejected.
C3_Witness ==
    /\ Handled("discard_card") /\ ByTurnHolder
    /\ prev.pending_discard # <<>>
    /\ ~last.action_processed

\* C4 (Group discard): an accepted discard_card removes from the sender's
\* hand every card of one rank-value V and no other card, V being the
\* rank-value of the card named when the message names a card by its display
\* form, and exactly the removed cards become the pending discard, owned by
\* the sender.
C4_GroupDiscard ==
    (Handled("discard_card") /\ last.action_processed) =>
        LET pid == last.pid
            hand == Hand(prev, pid)
        IN  \E V \in 1..13 :
              LET IsV(card) == RankValue(card) = V
                  NotV(card) == RankValue(card) # V
              IN  /\ \A c \in 1..52 :
                        last.action_data.card = CardStr(c) => RankValue(c) = V
                  /\ SelectSeq(hand, IsV) # <<>>
                  /\ Hand(game, pid) = SelectSeq(hand, NotV)
                  /\ game.pending_discard = <<SelectSeq(hand, IsV), pid>>

\* C4 witness: an accepted discard_card that named one card and took two or
\* more cards out of the hand.
C4_Witness ==
    /\ Handled("discard_card") /\ last.action_processed
    /\ \E c \in 1..52 : last.action_data.card = CardStr(c)
    /\ Len(PendingCards(game)) >= 2

\* Some pending card has the rank-value of the top of the discard pile.
SkipMatches(g) ==
    \E i \in 1..Len(PendingCards(g)) :
        RankValue(PendingCards(g)[i]) = RankValue(g.discard_pile[Len(g.discard_pile)])

\* C5 (Same-rank skip): for the turn holder with a pending discard and a
\* non-empty discard pile, same_number_skip succeeds exactly when some pending
\* card has the rank-value of the pile's top; when it fails nothing changes,
\* and a draw_card is still accepted while the deck has a card.
C5_SkipCorrect ==
    ( /\ Handled("same_number_skip") /\ ByTurnHolder
      /\ prev.pending_discard # <<>>
      /\ prev.discard_pile # <<>> )
    => /\ last.action_processed <=> SkipMatches(prev)
       /\ ~last.action_processed =>
             /\ game = prev
             /\ Len(game.deck) > 0 =>
                   handle_action(game, last.pid,
                                 [action |-> "draw_card", card |-> <<>>],
                                 Shuffled(2)).action_processed

\* C5 witness: a same_number_skip of the turn holder that failed on a
\* mismatch, the pending discard still there.
C5_Witness ==
    /\ Handled("same_number_skip") /\ ByTurnHolder
    /\ ~last.action_processed
    /\ game.pending_discard # <<>> /\ game.discard_pile # <<>>
    /\ ~SkipMatches(game)

\* Number of alternative contents tried for another player's hand.
NumAltHands == 2

\* The game with the hand of player q replaced by other cards, as many: each
\* card moved k places on in the suit-major list.
WithOtherHand(g, q, k) ==
    [g EXCEPT !.players[q].hand =
        [i \in 1..Len(g.players[q].hand) |-> ((g.players[q].hand[i] - 1 + k) % 52) + 1]]

\* C6 (Hidden information): the view of a player is the same whatever cards
\* (of the same number) another player's hand holds; it shows the viewer's own
\* cards and, of every player, the hand size.
C6_HiddenInformation ==
    \A viewer \in DOMAIN game.players :
        LET view == get_game_state(game, viewer)
        IN  /\ view.my_hand = StrList(Hand(game, viewer))
            /\ \A q \in DOMAIN game.players :
                  view.players[q].hand_size = Len(Hand(game, q))
            /\ \A q \in (DOMAIN game.players) \ {viewer} :
                  \A k \in 1..NumAltHands :
                      get_game_state(WithOtherHand(game, q, k), viewer) = view

\* C6 witness: a started three-player game in which one player holds a
\* pending discard and the others hold their cards.
C6_Witness ==
    /\ game.game_started
    /\ Cardinality(DOMAIN game.players) >= 3
    /\ game.pending_discard # <<>>
    /\ \A q \in DOMAIN game.players : Len(Hand(game, q)) > 0

\* C7 (Auto-start): on a server that has not started a game before, the start
\* attempt made with two players present starts the game: each of the two
\* holds 7 cards, the discard pile holds the 1 opening card, the deck 37, there
\* is no pending discard and the turn is with the player who joined first.
\* And once every joined connection has made its start attempt, two or more
\* players present means that the game is started.
C7_AutoStart ==
    /\ ( /\ last.op = "start"
         /\ ~EverStarted(prev)
         /\ Cardinality(DOMAIN prev.players) = 2 )
       => /\ last.action_processed
          /\ game.game_started
          /\ DOMAIN game.players = DOMAIN prev.players
          /\ \A pid \in DOMAIN game.players : Len(Hand(game, pid)) = 7
          /\ Len(game.discard_pile) = 1
          /\ Len(game.deck) = 37
          /\ game.pending_discard = <<>> /\ ~game.has_discarded
          /\ game.current_turn_player_id = prev.player_order[1]
          /\ game.players[game.current_turn_player_id].name = 1
    /\ ( /\ \A id \in Ids : pc[id] # "joined"
         /\ Cardinality(DOMAIN game.players) >= 2 )
       => game.game_started

\* C7 witness: the first start of the server, made with two players.
C7_Witness ==
    /\ last.op = "start" /\ last.action_processed
    /\ ~EverStarted(prev)
    /\ Cardinality(DOMAIN game.players) = 2
    /\ Len(game.deck) = 37

\* C8 (draw_card effect): an accepted draw_card of a player with k pending
\* cards puts the deck's top card, and nothing else, into that player's hand,
\* takes that one card off the deck, puts exactly the k pending cards on the
\* discard pile, leaves no pending discard and passes the turn to the next
\* player in player_order.
C8_DrawCard ==
    (Handled("draw_card") /\ last.action_processed) =>
        LET pid == last.pid
        IN  /\ prev.pending_discard # <<>> /\ Len(prev.deck) > 0
            /\ Hand(game, pid) = Append(Hand(prev, pid), prev.deck[Len(prev.deck)])
            /\ game.deck = SubSeq(prev.deck, 1, Len(prev.deck) - 1)
            /\ game.discard_pile = prev.discard_pile \o PendingCards(prev)
            /\ game.pending_discard = <<>>
            /\ game.current_turn_player_id = Follower(prev.player_order, pid)

\* C8 witness: an accepted draw_card that resolved a pending discard of two
\* or more cards, the turn now with another player.
C8_Witness ==
    /\ Handled("draw_card") /\ last.action_processed
    /\ Len(PendingCards(prev)) >= 2
    /\ game.current_turn_player_id # last.pid

\* C9 (same_number_skip draws no card): an accepted same_number_skip leaves
\* every hand and the deck as they were, puts exactly the pending cards on the
\* discard pile, leaves no pending discard and passes the turn to the next
\* player in player_order.
C9_SkipNoDraw ==
    (Handled("same_number_skip") /\ last.action_processed) =>
        /\ game.players = prev.players
        /\ game.deck = prev.deck
        /\ PendingCards(prev) # <<>>
        /\ game.discard_pile = prev.discard_pile \o PendingCards(prev)
        /\ game.pending_discard = <<>>
        /\ game.current_turn_player_id = Follower(prev.player_order, last.pid)

\* C9 witness: an accepted same_number_skip, the turn now with another player.
C9_Witness ==
    /\ Handled("same_number_skip") /\ last.action_processed
    /\ game.current_turn_player_id # last.pid
    /\ Len(game.discard_pile) > Len(prev.discard_pile)

\* C10 (Leave of the turn holder): when the turn holder of a started game
\* leaves, current_turn_player_id is, right after the leave, the player who
\* followed the leaver in player_order, and that player is still present.
C10_LeaveOfTurnHolder ==
    ( /\ last.op = "disconnect"
      /\ prev.game_started
      /\ prev.current_turn_player_id = last.pid )
    => /\ game.current_turn_player_id = Follower(prev.player_order, last.pid)
       /\ game.current_turn_player_id # last.pid
       /\ game.current_turn_player_id \in DOMAIN game.players
       /\ last.pid \notin DOMAIN game.players

\* C10 witness: the turn holder left a game of three or more players that was
\* not the first in player_order.
C10_Witness ==
    /\ last.op = "disconnect"
    /\ prev.game_started /\ prev.current_turn_player_id = last.pid
    /\ Len(prev.player_order) >= 3
    /\ prev.player_order[1] # last.pid

\* The round result recorded for pid ("None" when there is none).
ResultOf(g, pid) ==
    IF pid \in DOMAIN g.show_results THEN g.show_results[pid] ELSE "None"

RECURSIVE HandValue(_)
\* The rank-values of the cards of a hand, added up.
HandValue(hand) ==
    IF hand = <<>> THEN 0 ELSE RankValue(Head(hand)) + HandValue(Tail(hand))

\* The turn actions: the four moves of a turn.
TurnActions ==
    {"discard_card", "draw_card", "draw_from_discard_pile", "same_number_skip"}

\* C11 (show from any player): in a started game a show sent by any present
\* player, the turn holder or not, is accepted and gives the sender a round
\* result.
C11_ShowFromAnyPlayer ==
    ( /\ Handled("show")
      /\ prev.game_started
      /\ last.pid \in DOMAIN prev.players )
    => /\ last.action_processed
       /\ ResultOf(game, last.pid) # "None"

\* C12 (show result): after an accepted show every present player has a
\* round result; it is Winner exactly for the players whose hand value is
\* the least over the present players (so some player is Winner) and the
\* losing outcome, which the server spells "Losser", for every other player.
C12_ShowResult ==
    (Handled("show") /\ last.action_processed) =>
        /\ \A pid \in DOMAIN game.players :
              /\ ResultOf(game, pid) \in {"Winner", "Losser"}
              /\ ResultOf(game, pid) = "Winner"
                    <=> \A q \in DOMAIN game.players :
                            HandValue(Hand(game, pid)) <= HandValue(Hand(game, q))
        /\ \E pid \in DOMAIN game.players : ResultOf(game, pid) = "Winner"
        /\ game.players = prev.players

\* C12 witness: an accepted show in a game of three players that recorded a
\* Winner and a loser.
C12_Witness ==
    /\ Handled("show") /\ last.action_processed
    /\ Cardinality(DOMAIN game.players) >= 3
    /\ \E pid \in DOMAIN game.players : ResultOf(game, pid) = "Winner"
    /\ \E pid \in DOMAIN game.players : ResultOf(game, pid) = "Losser"

\* C13 (a round result blocks play): while a round result is set, that is
\* from an accepted show until an accepted new_game, every turn action of
\* every player is rejected and changes nothing.
C13_RoundOverBlocksPlay ==
    \A a \in TurnActions :
        (Handled(a) /\ prev.show_results # <<>>)
            => (~last.action_processed /\ game = prev)

\* C14 (new_game restarts the round): after an accepted new_game there is no
\* round result and a start_game has taken effect: every player holds 7
\* cards, the discard pile holds one card, the deck the other 52 - 7n - 1,
\* there is no pending discard and the turn is with the first of
\* player_order.
C14_NewGameRestarts ==
    (Handled("new_game") /\ last.action_processed) =>
        /\ game.show_results = <<>>
        /\ \A pid \in DOMAIN game.players : Len(Hand(game, pid)) = cards_per_player
        /\ Len(game.discard_pile) = 1
        /\ Len(game.deck)
              = 52 - cards_per_player * Cardinality(DOMAIN game.players) - 1
        /\ game.pending_discard = <<>>
        /\ game.current_turn_player_id = game.player_order[1]

\* C15 (rejected actions have no effect): when handle_action reports a
\* message as not processed, the game is as it was, no turn advance is asked
\* for and no view is sent.
C15_RejectedNoEffect ==
    (last.op = "message" /\ ~last.action_processed) =>
        /\ game = prev
        /\ ~last.advance_turn
        /\ sent = {}

\* C15 witness: the turn holder's same_number_skip was rejected on a
\* mismatch, after an accepted discard whose views were sent.
C15_Witness ==
    /\ Handled("same_number_skip") /\ ByTurnHolder
    /\ ~last.action_processed
    /\ prev.pending_discard # <<>> /\ prev.discard_pile # <<>>
    /\ sent = {}

\* C16 (discard of a card not in hand): a discard_card of the turn holder
\* that names a card the sender does not hold is rejected: the hand is as it
\* was and no pending discard is created.
C16_DiscardNotInHand ==
    ( /\ Handled("discard_card") /\ ByTurnHolder
      /\ \E c \in 1..52 :
            /\ last.action_data.card = CardStr(c)
            /\ c \notin Range(Hand(prev, last.pid)) )
    => /\ ~last.action_processed
       /\ Hand(game, last.pid) = Hand(prev, last.pid)
       /\ game.pending_discard = prev.pending_discard

\* C17 (join): a join is rejected, the whole game left as it was, when a game
\* is started or the identity is already a player; any other join adds that
\* identity, with an empty hand, to players and to the end of player_order and
\* changes nothing else.
C17_Join ==
    last.op = "connect" =>
        IF prev.game_started \/ last.pid \in DOMAIN prev.players
        THEN /\ ~last.action_processed
             /\ game = prev
        ELSE /\ last.action_processed
             /\ DOMAIN game.players = (DOMAIN prev.players) \cup {last.pid}
             /\ \A q \in DOMAIN prev.players : game.players[q] = prev.players[q]
             /\ Hand(game, last.pid) = <<>>
             /\ game.player_order = Append(prev.player_order, last.pid)
             /\ [game EXCEPT !.players = prev.players,
                             !.player_order = prev.player_order] = prev

\* C17 witness: a new identity tried to join a started game and was refused.
C17_Witness ==
    /\ last.op = "connect" /\ ~last.action_processed
    /\ prev.game_started
    /\ last.pid \notin DOMAIN prev.players

\* C18 (suspension): a leave that brings a started game below min_players
\* leaves it not started, with the remaining players' hands, the deck and the
\* discard pile as they were; while a game is not started every message is
\* rejected and changes nothing, and only a start attempt starts it again.
C18_Suspension ==
    /\ ( /\ last.op = "disconnect"
         /\ prev.game_started
         /\ Cardinality(DOMAIN game.players) < min_players )
       => /\ ~game.game_started
          /\ \A q \in DOMAIN game.players : game.players[q] = prev.players[q]
          /\ game.deck = prev.deck
          /\ game.discard_pile = prev.discard_pile
    /\ (last.op = "message" /\ ~prev.game_started)
       => (~last.action_processed /\ game = prev)
    /\ (~prev.game_started /\ game.game_started)
       => (last.op = "start" /\ last.action_processed)

\* C18 witness: the player left alone in a suspended game, to whom the turn
\* had passed, sent a message and it was rejected.
C18_Witness ==
    /\ last.op = "message" /\ ~last.action_processed
    /\ EverStarted(prev) /\ ~prev.game_started
    /\ last.pid = prev.current_turn_player_id
    /\ last.pid \in DOMAIN prev.players

\* C19 (restart deals from fresh state): after a start_game that restarts a
\* game stopped by a leave, every player holds cards_per_player cards, the
\* discard pile holds one card and the deck 52 - 7n - 1.
C19_RestartDealsFresh ==
    (last.op = "start" /\ last.action_processed /\ EverStarted(prev)) =>
        /\ \A pid \in DOMAIN game.players : Len(Hand(game, pid)) = cards_per_player
        /\ Len(game.discard_pile) = 1
        /\ Len(game.deck)
              = 52 - cards_per_player * Cardinality(DOMAIN game.players) - 1

\* C20 (start_game clears the round result): right after a successful
\* start_game no identity has a round result and no player's view carries
\* one.
C20_StartClearsResult ==
    (last.op = "start" /\ last.action_processed) =>
        /\ \A pid \in Ids : ResultOf(game, pid) = "None"
        /\ \A pid \in DOMAIN game.players :
              get_game_state(game, pid).show_result = "None"

\* C26 (pending discard and has_discarded agree): in every state there is a
\* pending discard exactly when has_discarded is true; the pending discard is
\* one pair of cards and owner, the cards not empty, and its owner is
\* current_turn_player_id.
C26_PendingAgrees ==
    /\ (game.pending_discard # <<>>) <=> game.has_discarded
    /\ game.pending_discard # <<>> =>
          /\ Len(game.pending_discard) = 2
          /\ PendingCards(game) # <<>>
          /\ game.pending_discard[2] = game.current_turn_player_id

\* C26 witness: the turn holder left while holding a pending discard, and the
\* game went on without a pending discard.
C26_Witness ==
    /\ last.op = "disconnect" /\ last.advance_turn
    /\ prev.pending_discard # <<>>
    /\ game.game_started
    /\ game.pending_discard = <<>>

\* C27 (no game or one turn holder): in every state exactly one of "no game
\* is started" and "current_turn_player_id is set" holds; when no game is
\* started there is no turn holder.
C27_StartedOrNoTurn ==
    (~game.game_started) <=> (game.current_turn_player_id = None)

\* C28 (no missing turn holder): in every state current_turn_player_id is
\* None or a player of the players map.
C28_TurnHolderPresent ==
    \/ game.current_turn_player_id = None
    \/ game.current_turn_player_id \in DOMAIN game.players

\* C29 (draw_from_discard_pile effect): an accepted draw_from_discard_pile
\* puts the card that was the pile's top at the end of the sender's hand,
\* then the pending cards on the pile, so that the new top is the last
\* pending card; the deck and the other hands are as they were, there is no
\* pending discard and the turn is with the next player of player_order.
C29_DrawFromDiscard ==
    (Handled("draw_from_discard_pile") /\ last.action_processed) =>
        LET pid == last.pid
            pile == prev.discard_pile
            pending == PendingCards(prev)
        IN  /\ pile # <<>> /\ pending # <<>>
            /\ Hand(game, pid) = Append(Hand(prev, pid), pile[Len(pile)])
            /\ game.discard_pile = SubSeq(pile, 1, Len(pile) - 1) \o pending
            /\ game.discard_pile[Len(game.discard_pile)] = pending[Len(pending)]
            /\ game.deck = prev.deck
            /\ \A q \in (DOMAIN game.players) \ {pid} : Hand(game, q) = Hand(prev, q)
            /\ game.pending_discard = <<>> /\ ~game.has_discarded
            /\ game.current_turn_player_id = Follower(prev.player_order, pid)

\* C29 witness: an accepted draw_from_discard_pile that resolved a pending
\* discard of two or more cards.
C29_Witness ==
    /\ Handled("draw_from_discard_pile") /\ last.action_processed
    /\ Len(PendingCards(prev)) >= 2
    /\ game.current_turn_player_id # last.pid

\* C30 (frame of discard_card): an accepted discard_card asks for no turn
\* advance and changes the sender's hand, the pending discard and
\* has_discarded, and nothing else: the turn, the deck, the discard pile, the
\* other hands, the players and player_order are as they were.
C30_DiscardFrame ==
    (Handled("discard_card") /\ last.action_processed) =>
        LET pid == last.pid
        IN  /\ ~last.advance_turn
            /\ game.current_turn_player_id = prev.current_turn_player_id
            /\ game.deck = prev.deck
            /\ game.discard_pile = prev.discard_pile
            /\ DOMAIN game.players = DOMAIN prev.players
            /\ \A q \in (DOMAIN game.players) \ {pid} : game.players[q] = prev.players[q]
            /\ game.player_order = prev.player_order
            /\ [game EXCEPT !.players[pid].hand = Hand(prev, pid),
                            !.pending_discard = prev.pending_discard,
                            !.has_discarded = prev.has_discarded] = prev
            /\ Hand(game, pid) # Hand(prev, pid)
            /\ game.pending_discard # <<>> /\ game.has_discarded

\* C30 witness: an accepted discard_card in a game of three players.
C30_Witness ==
    /\ Handled("discard_card") /\ last.action_processed
    /\ Cardinality(DOMAIN game.players) >= 3
    /\ game.pending_discard # <<>>

\* C25 (deck exhaustion): a draw_card of the turn holder with a pending
\* discard and an empty deck is rejected and changes nothing; in a state with
\* an empty deck where the turn holder has a pending discard, a
\* draw_from_discard_pile of the turn holder is accepted and the turn
\* advances.
C25_DeckExhaustion ==
    /\ ( /\ Handled("draw_card") /\ ByTurnHolder
         /\ prev.pending_discard # <<>> /\ prev.deck = <<>> )
       => /\ ~last.action_processed
          /\ game = prev
    /\ ( /\ Handled("draw_from_discard_pile") /\ ByTurnHolder
         /\ prev.pending_discard # <<>> /\ prev.deck = <<>> )
       => /\ last.action_processed /\ last.advance_turn
          /\ game.pending_discard = <<>>
          /\ game.current_turn_player_id
                = Follower(prev.player_order, last.pid)
    /\ ( /\ game.game_started
         /\ game.pending_discard # <<>> /\ game.deck = <<>> )
       => LET r == handle_action(game, game.current_turn_player_id,
                                 [action |-> "draw_from_discard_pile", card |-> <<>>],
                                 Shuffled(2))
          IN  r.action_processed /\ r.advance_turn

\* C25 witness: the turn holder's draw_card was rejected on an empty deck,
\* the pending discard still there.
C25_Witness ==
    /\ Handled("draw_card") /\ ByTurnHolder
    /\ ~last.action_processed
    /\ game.deck = <<>>
    /\ game.pending_discard # <<>>

\* Thread id is between the acceptance of a message by handle_action and the
\* end of the turn advance and broadcast that follow it.
InAction(id) ==
    \/ pc[id] \in {"advance", "broadcast"}
    \/ pc[id] = "send" /\ bcast[id].then = "recv"

\* Thread id has returned from a broadcast_state call in which it went
\* through the registry copy began.
Returned(id) == pc[id] \notin {"send"} /\ bcast[id].began # {}

\* C21 (full serialization): no message and no leave of a connection changes
\* the game while another connection's thread is between the acceptance of
\* its message and the end of the turn advance and broadcast for it.
C21_Serialized ==
    (last.op \in {"handle", "leave"} /\ game # prev) =>
        \A id \in Ids \ {last.pid} : ~InAction(id)

\* C22 (no half-applied transition seen): no view computed for delivery
\* shows the pending discard resolved by a player whose turn advance has not
\* been made, that is with current_turn_player_id still that player.
C22_NoHalfApplied ==
    (last.op = "project" /\ last.action_processed) =>
        LET view == bcast[last.pid].view[2]
        IN  ~ \E id \in Ids :
                /\ pc[id] = "advance"
                /\ view.current_turn_player_id = id
                /\ view.pending_discard = <<>>

\* C23 (failing peer is torn down): when a broadcast in which the delivery
\* to a connection failed has returned, that connection is not in the
\* registry and its player is not in the game.
C23_FailingPeerRemoved ==
    \A id \in Ids :
        Returned(id) =>
            \A c \in bcast[id].failed :
                c \notin clients /\ c \notin DOMAIN game.players

\* Supporting invariant of broadcast_state: every identity of the registry
\* copy is either still to come, or was sent to (with or without success), or
\* was passed over because it was no player any more; when the broadcast has
\* returned none is still to come; and the view computed for an identity is
\* the projection of the game for that identity.
BroadcastCoversCopy ==
    \A id \in Ids :
        LET b == bcast[id]
        IN  /\ b.began = b.tried \cup b.skipped \cup Range(b.todo)
            /\ b.tried \cap Range(b.todo) = {}
            /\ b.failed \subseteq b.tried
            /\ Returned(id) => (b.todo = <<>> /\ b.tried \cup b.skipped = b.began)
            /\ b.skipped \cap DOMAIN game.players = {}
            /\ b.view # <<>> =>
                  /\ b.view[1] = Head(b.todo)
                  /\ b.view[2].my_id = b.view[1]
                  /\ (last.op = "project" /\ last.pid = id)
                        => b.view[2] = get_game_state(game, b.view[1])
            /\ (last.op = "send" /\ last.pid = id /\ last.action_processed)
                  => (sent \subseteq b.tried /\ Cardinality(sent) = 1)

\* C24 (broadcast isolation): when a broadcast in which the delivery to a
\* connection failed has returned, a delivery was attempted to every
\* connection that was registered when the broadcast began, and a view
\* computed for delivery is the projection for the identity it is sent to.
C24_AllOthersAttempted ==
    \A id \in Ids :
        /\ (Returned(id) /\ bcast[id].failed # {})
              => bcast[id].began \subseteq bcast[id].tried
        /\ bcast[id].view # <<>> => bcast[id].view[2].my_id = bcast[id].view[1]

\* player_order without the identity id, the others in their order.
Without(order, id) == SelectSeq(order, LAMBDA x : x # id)

\* C31 (turn rotation): in a started game the turn advance of a resolved turn
\* gives the turn to the identity that follows the turn holder in
\* player_order, the first one after the last, and leaves the order alone; a
\* message without turn advance leaves both alone; a leave removes the leaver
\* from player_order with the others in their order, and while the game stays
\* started it gives the turn to the leaver's follower when the leaver held the
\* turn and leaves the turn alone otherwise.
C31_TurnRotation ==
    /\ (last.op = "message" /\ prev.game_started) =>
          /\ game.player_order = prev.player_order
          /\ game.current_turn_player_id =
                IF last.action_processed /\ last.advance_turn
                THEN Follower(prev.player_order, prev.current_turn_player_id)
                ELSE prev.current_turn_player_id
    /\ (last.op = "disconnect" /\ last.action_processed) =>
          /\ game.player_order = Without(prev.player_order, last.pid)
          /\ (prev.game_started /\ game.game_started) =>
                /\ game.current_turn_player_id =
                      IF prev.current_turn_player_id = last.pid
                      THEN Follower(prev.player_order, last.pid)
                      ELSE prev.current_turn_player_id
                /\ game.current_turn_player_id \in Range(game.player_order)

\* C31 witness: the player who joined last, holding the turn at a table of
\* three or more, has left; the game is still started and the turn has gone
\* to the first player of the order.
C31_Witness ==
    /\ last.op = "disconnect" /\ last.action_processed
    /\ prev.game_started /\ game.game_started
    /\ Len(prev.player_order) >= 3
    /\ prev.current_turn_player_id = last.pid
    /\ prev.player_order[Len(prev.player_order)] = last.pid
    /\ game.current_turn_player_id = game.player_order[1]

\* C33 (turn actions conserve cards): every accepted message, taken with the
\* turn advance that follows it, leaves |deck| + the hands + |discard_pile| +
\* the pending cards as it was; and no step other than a leave takes that
\* total away from 52, which it is on a new server, so that it is 52 along
\* every run without a leave.
C33_TurnActionsConserve ==
    /\ (last.op = "message" /\ last.action_processed) =>
          TotalCards(game) = TotalCards(prev)
    /\ (last.op # "disconnect" /\ TotalCards(prev) = 52) =>
          TotalCards(game) = 52

\* C33 witness: the turn holder's draw_from_discard_pile has been accepted and
\* the turn advanced at a table whose cards add up to 52.
C33_Witness ==
    /\ Handled("draw_from_discard_pile")
    /\ last.action_processed /\ last.advance_turn
    /\ game.current_turn_player_id # prev.current_turn_player_id
    /\ TotalCards(prev) = 52 /\ TotalCards(game) = 52

\* C34 (a turn can always be completed): whenever the game is started, no
\* round result is set and there is no pending discard, the turn holder is a
\* player who holds at least one card, and some discard_card of that player
\* is accepted.
C34_TurnCanComplete ==
    (game.game_started /\ game.show_results = <<>> /\ game.pending_discard = <<>>)
        => LET pid == game.current_turn_player_id
           IN  /\ pid \in DOMAIN game.players
               /\ Len(Hand(game, pid)) >= 1
               /\ \E card \in Range(NewDeckCards) :
                      discard_card(game, pid, CardStr(card)).action_processed

\* The cards that are in the deck, a player's hand, the discard pile or the
\* pending discard.
CardsInPlay(g) ==
    Range(g.deck) \cup UNION { Range(Hand(g, pid)) : pid \in DOMAIN g.players }
        \cup Range(g.discard_pile) \cup Range(PendingCards(g))

\* C37 (card uniqueness): in every state reached after a successful
\* start_game no card occurs more than once in the deck, the hands, the
\* discard pile and the pending discard taken together.
C37_CardUniqueness ==
    EverStarted(game) => Cardinality(CardsInPlay(game)) = TotalCards(game)

\* C38 (minimum-player gating): whenever the game is started at least
\* min_players players are present; a leave that brings a started game below
\* min_players leaves it not started, and no step starts a game with fewer.
C38_MinimumPlayers ==
    /\ game.game_started => Cardinality(DOMAIN game.players) >= min_players
    /\ ( /\ last.op = "disconnect" /\ last.action_processed
         /\ prev.game_started
         /\ Cardinality(DOMAIN game.players) < min_players )
       => ~game.game_started
    /\ (~prev.game_started /\ game.game_started)
       => Cardinality(DOMAIN prev.players) >= min_players

\* C38 witness: a leave has brought a started game of two down to one player
\* and the game is not started any more.
C38_Witness ==
    /\ last.op = "disconnect" /\ last.action_processed
    /\ prev.game_started /\ Cardinality(DOMAIN prev.players) = min_players
    /\ Cardinality(DOMAIN game.players) = min_players - 1
    /\ ~game.game_started

\* The largest table for which the deck still holds an opening card after the
\* deal (lines 122-131): 7 players take 49 of the 52 cards.
MaxOpeningPlayers == (Len(NewDeckCards) - 1) \div cards_per_player

\* start_game at a table of min_players..MaxOpeningPlayers players opens the
\* discard pile with one card, whatever the deck.
OpeningCardDealt ==
    \A n \in min_players..MaxOpeningPlayers : \A d \in Decks :
        Len(start_game(Seated(n, d), d, cards_per_player).discard_pile) = 1

\* C39 (the discard pile is never empty while a game is started): for tables
\* of at most 7 players a start puts a card on the discard pile, every state
\* with the game started has a card on it, and a draw_from_discard_pile or
\* same_number_skip of the turn holder who has a pending discard is never
\* rejected for an empty pile.
C39_DiscardPileNeverEmpty ==
    /\ OpeningCardDealt
    /\ game.game_started => game.discard_pile # <<>>
    /\ ( /\ Handled("draw_from_discard_pile") /\ ByTurnHolder
         /\ prev.pending_discard # <<>> /\ prev.has_discarded )
       => last.action_processed
    /\ ( /\ Handled("same_number_skip") /\ ByTurnHolder
         /\ prev.pending_discard # <<>> /\ prev.has_discarded
         /\ ~last.action_processed )
       => (prev.discard_pile # <<>> /\ ~SkipMatches(prev))

\* C39 witness: the turn holder has drawn the only card of the discard pile
\* and the pile holds the cards of the pending discard.
C39_Witness ==
    /\ Handled("draw_from_discard_pile") /\ last.action_processed
    /\ Len(prev.discard_pile) = 1
    /\ game.game_started
    /\ game.discard_pile = prev.pending_discard[1]

\* C32 (no send under the lock): the thread that has just sent a view did not
\* hold the game lock; a thread that has a view computed and is about to send
\* it, or that is between two lock sections, does not hold the lock: the lock
\* taken for a projection is given back before the view is sent.
C32_NoSendUnderLock ==
    /\ last.op = "send" => lock # last.pid
    /\ last.op = "project" => lock # last.pid
    /\ \A id \in Ids :
          lock = id =>
              /\ pc[id] \notin {"broadcast", "closing", "none"}
              /\ pc[id] = "send" => bcast[id].view = <<>>

\* C32 witness: a view has been sent by one thread while the thread of another
\* connection held the lock.
C32_Witness ==
    /\ last.op = "send" /\ last.action_processed
    /\ lock \in Ids \ {last.pid}

\* Every message received has been handled and every broadcast has returned.
Quiescent == lock = None /\ \A id \in Ids : pc[id] \in {"recv", "none"}

\* C35 (views converge): when every message received has been handled and
\* every broadcast has returned, no delivery having failed, the view sent last
\* to each registered player is the projection of the game for that player.
C35_ViewsConverge ==
    (Quiescent /\ \A id \in Ids : bcast[id].failed = {}) =>
        \A c \in clients :
            c \in DOMAIN game.players => delivered[c] = get_game_state(game, c)

\* C36 (exactly-once turn advance): from the acceptance of a message that
\* asks for a turn advance until the thread's call of next_turn the turn stays
\* with the sender, whatever the other threads do, and while the game is
\* started that call gives the turn to the sender's follower in player_order
\* as it then is.
C36_ExactlyOnceAdvance ==
    /\ \A id \in Ids :
          (pc[id] = "advance" /\ game.game_started) =>
              /\ game.current_turn_player_id = id
              /\ id \in Range(game.player_order)
    /\ (last.op = "advance" /\ prev.game_started) =>
          /\ prev.current_turn_player_id = last.pid
          /\ game.game_started
          /\ game.player_order = prev.player_order
          /\ game.current_turn_player_id = Follower(prev.player_order, last.pid)
    /\ (last.op = "handle" /\ last.action_processed /\ last.advance_turn) =>
          /\ game.current_turn_player_id = prev.current_turn_player_id
          /\ pc[last.pid] = "advance"

\* C36 witness: between the acceptance of a player's draw and that thread's
\* next_turn another connection has left a table of three; the game is still
\* started and the turn has gone to the remaining other player.
C36_Witness ==
    /\ last.op = "advance" /\ prev.game_started /\ game.game_started
    /\ \E id \in Ids \ {last.pid} : pc[id] = "closing"
    /\ Len(game.player_order) = 2
    /\ game.current_turn_player_id # last.pid

=============================================================================
